---- MODULE Spec2Model ----
(***************************************************************************)
(* Token lifecycle of the smooch client: GenerateJWT / isJWTExpired (the   *)
(* codec), RedisStorage (the shared store), and SmoochClient.New,          *)
(* IsJWTExpired, RenewToken and createRequest (the lifecycle manager and   *)
(* the request authenticator).                                             *)
(*                                                                         *)
(* A signed token is modelled symbolically: a record of its claims and     *)
(* header plus the secret it was signed with; an HMAC verifies exactly     *)
(* under the secret that produced it.                                      *)
(***************************************************************************)
EXTENDS Integers, FiniteSets, Sequences, TLC

VARIABLES now, ticks, redis, opts, mtx, pc, isExpired, jwtToken, err,
          obs, stat, issuedTotal, codec, mux, req, api, wh

vars == <<now, ticks, redis, opts, mtx, pc, isExpired, jwtToken, err,
          obs, stat, issuedTotal, codec, mux, req, api, wh>>

mainVars == <<now, ticks, redis, opts, mtx, pc, isExpired, jwtToken, err,
              obs, stat, issuedTotal, mux, req, api, wh>>

(* ------------------------------ bounds -------------------------------- *)

\* Unix time at which the modelled run starts (any real clock is far past
\* the first hour of 1970).
Epoch == 100000

\* Number of clock advances in one behaviour.
MaxTicks == 1

\* Goroutines of instance "A", each building one request.  The second
\* instance "B" only starts up (its New may renew the shared token).
NumGoroutines == 2

(* ------------------------- program constants -------------------------- *)

JWTExpiration == 3600

AuthBasic == "basic"
AuthJWT == "jwt"

(* ------------------------------ universe ------------------------------ *)

Clients == {"A", "B"}
Main == 0
Workers == {"A"} \X (1..NumGoroutines)
Procs == (Clients \X {Main}) \cup Workers
Env == <<"env", 0>>
Unlocked == <<"none", 0>>

ClientOf(p) == p[1]
MainOf(c) == <<c, Main>>

Secrets == {"s1", "s2"}
KeyIDs == {"k1", "k2"}
Scopes == {"app", "account"}

\* Clock advances: one second, or a whole token lifetime.
TickSteps == {1, JWTExpiration}

(* ------------------------------- tokens ------------------------------- *)

NoToken == [kind |-> "none", scope |-> "", kid |-> "", exp |-> 0, sig |-> ""]
Garbage == [kind |-> "garbage", scope |-> "", kid |-> "", exp |-> 0, sig |-> ""]

GenerateJWT_Timed(scope, keyID, secret) ==
    [kind |-> "jwt", scope |-> scope, kid |-> keyID,
     exp |-> now + JWTExpiration, sig |-> secret]

\* jwt.NewWithClaims(HS256, {"scope": scope, "exp": JWTExpiration}) with
\* header kid = keyID, signed with secret.
GenerateJWT(scope, keyID, secret) ==
    [kind |-> "jwt", scope |-> scope, kid |-> keyID,
     exp |-> JWTExpiration, sig |-> secret]

\* MapClaims.VerifyExpiresAt(now, false): an absent or zero exp is accepted,
\* otherwise the token is good while now <= exp.
verifyExp(exp, t) == IF exp = 0 THEN TRUE ELSE t <= exp

ParseWithClaims_NoSig(tok, secret, t) ==
    IF tok.kind # "jwt" THEN {"Malformed"}
    ELSE IF ~verifyExp(tok.exp, t) THEN {"Expired"} ELSE {}

\* jwt.ParseWithClaims(jwtToken, MapClaims{}, keyfunc returning secret):
\* the set of validation error flags (empty when the token is valid).
ParseWithClaims(tok, secret, t) ==
    IF tok.kind # "jwt" THEN {"Malformed"}
    ELSE (IF ~verifyExp(tok.exp, t) THEN {"Expired"} ELSE {})
         \cup (IF tok.sig # secret THEN {"SignatureInvalid"} ELSE {})

Valid == [expired |-> FALSE, err |-> "nil"]
Expired == [expired |-> TRUE, err |-> "nil"]
Invalid == [expired |-> FALSE, err |-> "ValidationError"]

isJWTExpired(tok, secret, t) ==
    LET e == ParseWithClaims(tok, secret, t)
    IN  IF e = {} THEN Valid
        ELSE IF e = {"Expired"} THEN Expired
        ELSE Invalid

(* ------------------------------- store -------------------------------- *)

EmptyStore == [val |-> NoToken, expireAt |-> 0, by |-> Env]

\* Values some other writer may have left under the key before the run.
ForeignValues ==
    {Garbage} \cup
    {[kind |-> "jwt", scope |-> "app", kid |-> "k1", exp |-> Epoch, sig |-> s] :
        s \in Secrets}

InitTTLs == {1, JWTExpiration}

StoreInits ==
    {EmptyStore} \cup
    {[val |-> v, expireAt |-> Epoch + ttl, by |-> Env] :
        v \in ForeignValues, ttl \in InitTTLs}

\* GET smooch-jwt-token (redis.String turns a nil reply into ErrNil).
GetTokenFromRedis(r, t) ==
    IF r.val.kind = "none" \/ t >= r.expireAt
    THEN [val |-> NoToken, err |-> "ErrNil", by |-> Env]
    ELSE [val |-> r.val, err |-> "nil", by |-> r.by]

SaveTokenToRedis_NX(token, ttl, t, p) ==
    IF redis.val.kind # "none" THEN redis
    ELSE [val |-> token, expireAt |-> t + ttl, by |-> p]

\* SETEX smooch-jwt-token ttl token
SaveTokenToRedis(token, ttl, t, p) ==
    [val |-> token, expireAt |-> t + ttl, by |-> p]

(* ------------------------------ options ------------------------------- *)

JWTOptions == [Auth |-> AuthJWT, KeyID |-> "k1", Secret |-> "s1", RedisPool |-> TRUE]

\* What instance "A" is constructed with; instance "B" always runs in JWT
\* mode with JWTOptions.
OptionSet ==
    { JWTOptions,
      [Auth |-> AuthBasic, KeyID |-> "k1", Secret |-> "s1", RedisPool |-> FALSE],
      [Auth |-> AuthJWT,   KeyID |-> "k1", Secret |-> "s1", RedisPool |-> FALSE],
      [Auth |-> AuthJWT,   KeyID |-> "",   Secret |-> "s1", RedisPool |-> TRUE],
      [Auth |-> AuthJWT,   KeyID |-> "k1", Secret |-> "",   RedisPool |-> TRUE],
      [Auth |-> "oauth",   KeyID |-> "k1", Secret |-> "s1", RedisPool |-> TRUE],
      [Auth |-> "oauth",   KeyID |-> "",   Secret |-> "",   RedisPool |-> FALSE] }

(* ------------------------------- ghosts ------------------------------- *)

NoObs == [kind |-> "none", tok |-> NoToken, by |-> Env, ttlEnd |-> 0,
          issuedBefore |-> 0, readTok |-> NoToken]
NoStat == [issued |-> 0, writes |-> 0, reads |-> 0]

NoReq == [auth |-> "none", user |-> "", pass |-> "", token |-> NoToken]

\* One API operation of a goroutine: the operation and which of its
\* arguments are empty (or nil), whether the HTTP request went out and with
\* which credential, the response, and what the operation returned.
ApiIdle == [op |-> "none", empty |-> {}, sent |-> FALSE, sentAuth |-> "none",
            status |-> 0, body |-> "none", err |-> "nil", code |-> 0,
            respData |-> 0, payload |-> FALSE]

\* The webhook side of a client: which client type serves, the handlers in
\* registration order, the handler whose registration is under way ("" when
\* none is), the requests served so far, and the handler invocations in
\* the order they happened.
WebhookIdle == [variant |-> "SmoochClient", handlers |-> <<>>, adding |-> "",
                events |-> <<>>, log |-> <<>>]

CodecIdle == [pc |-> "start", src |-> "none", scope |-> "", kid |-> "",
              secret |-> "", vsecret |-> "", issuedAt |-> 0, tok |-> NoToken,
              checkedAt |-> 0, res |-> Valid]

(* -------------------------------- Init -------------------------------- *)

Init ==
    /\ now = Epoch
    /\ ticks = 0
    /\ redis \in StoreInits
    /\ opts \in {o \in [Clients -> OptionSet] : o["B"] = JWTOptions}
    /\ mtx = [c \in Clients |-> Unlocked]
    /\ pc = [p \in Procs |-> IF p[2] = Main THEN "new" ELSE "idle"]
    /\ isExpired = [p \in Procs |-> FALSE]
    /\ jwtToken = [p \in Procs |-> NoToken]
    /\ err = [p \in Procs |-> "nil"]
    /\ obs = [p \in Procs |-> NoObs]
    /\ stat = [p \in Procs |-> NoStat]
    /\ issuedTotal = [c \in Clients |-> 0]
    /\ codec = CodecIdle
    /\ mux = [c \in Clients |-> FALSE]
    /\ req = [p \in Workers |-> NoReq]
    /\ api = [p \in Workers |-> ApiIdle]
    /\ wh = WebhookIdle

(* ------------------------------- helpers ------------------------------ *)

Bump(f, p, field) == [f EXCEPT ![p] = [@ EXCEPT ![field] = @ + 1]]

\* A store command either completes or fails with a connection error.
StoreOutcomes == {"ok", "ErrStore"}

(* -------------------------------- clock ------------------------------- *)

\* Time passes; the store drops the key once its TTL has elapsed.
Tick ==
    /\ ticks < MaxTicks
    /\ \E d \in TickSteps :
          /\ now' = now + d
          /\ redis' = IF redis.val.kind # "none" /\ now + d >= redis.expireAt
                      THEN EmptyStore ELSE redis
    /\ ticks' = ticks + 1
    /\ UNCHANGED <<opts, mtx, pc, isExpired, jwtToken, err, obs, stat, issuedTotal,
                   codec, mux, req, api, wh>>

(* --------------------------------- New -------------------------------- *)

NewFail(c, e) ==
    /\ pc' = [pc EXCEPT ![MainOf(c)] = "new_failed"]
    /\ err' = [err EXCEPT ![MainOf(c)] = e]
    /\ UNCHANGED <<obs, stat, mux>>

NewValidate_NoRedisCheck(o) ==
    IF o.KeyID = "" THEN "ErrKeyIDEmpty"
    ELSE IF o.Secret = "" THEN "ErrSecretEmpty"
    ELSE IF o.Auth # AuthBasic /\ o.Auth # AuthJWT THEN "ErrWrongAuth"
    ELSE "nil"

\* The option checks of New, in the order the code makes them.
NewValidate(o) ==
    IF o.KeyID = "" THEN "ErrKeyIDEmpty"
    ELSE IF o.Secret = "" THEN "ErrSecretEmpty"
    ELSE IF o.Auth # AuthBasic /\ o.Auth # AuthJWT THEN "ErrWrongAuth"
    ELSE IF o.Auth = AuthJWT /\ ~o.RedisPool THEN "ErrRedisNil"
    ELSE "nil"

\* The read result that sends New into RenewToken.
NewMustRenew_Inverted(r) == r.err = "nil"

NewMustRenew_Always(r) == TRUE

NewMustRenew(r) == r.err # "nil"

\* New(o): option validation, construction, and in JWT mode the first read
\* of the store.  A failed read (not found, or any other error) continues
\* in RenewToken; otherwise the webhook route is registered on the mux and
\* the client is returned.
New(c) ==
    LET m == MainOf(c)
        o == opts[c]
    IN  /\ pc[m] = "new"
        /\ IF NewValidate(o) # "nil" THEN NewFail(c, NewValidate(o))
           ELSE IF o.Auth = AuthJWT THEN
                \E out \in StoreOutcomes :
                   LET r == IF out = "ok" THEN GetTokenFromRedis(redis, now)
                            ELSE [val |-> NoToken, err |-> out, by |-> Env]
                   IN  /\ stat' = Bump(stat, m, "reads")
                       /\ obs' = [obs EXCEPT ![m] =
                                    [kind |-> IF r.err = "nil" THEN "found"
                                              ELSE IF r.err = "ErrNil" THEN "notfound"
                                              ELSE "storeerr",
                                     tok |-> r.val, by |-> r.by,
                                     ttlEnd |-> IF r.err = "nil" THEN redis.expireAt ELSE 0,
                                     issuedBefore |-> issuedTotal[c],
                                     readTok |-> NoToken]]
                       /\ pc' = [pc EXCEPT ![m] =
                                    IF NewMustRenew(r) THEN "renew_lock" ELSE "ready"]
                       /\ mux' = [mux EXCEPT ![c] = ~NewMustRenew(r)]
                       /\ err' = err
           ELSE /\ pc' = [pc EXCEPT ![m] = "ready"]
                /\ mux' = [mux EXCEPT ![c] = TRUE]
                /\ UNCHANGED <<err, obs, stat>>
        /\ UNCHANGED <<now, ticks, redis, opts, mtx, isExpired, jwtToken,
                       issuedTotal, codec, req, api, wh>>

(* ------------------------------ RenewToken ---------------------------- *)

MtxAvailable_NoLock(c) == TRUE

\* sc.Mtx can be taken.
MtxAvailable(c) == mtx[c] = Unlocked

\* sc.Mtx.Lock(), then jwtToken, err := GenerateJWT("app", sc.KeyID,
\* sc.Secret); signing with HS256 and a byte-slice key cannot fail.
RenewGenerate(p) ==
    LET c == ClientOf(p)
    IN  /\ pc[p] = "renew_lock"
        /\ MtxAvailable(c)
        /\ mtx' = [mtx EXCEPT ![c] = p]
        /\ jwtToken' = [jwtToken EXCEPT ![p] =
                           GenerateJWT("app", opts[c].KeyID, opts[c].Secret)]
        /\ stat' = Bump(stat, p, "issued")
        /\ issuedTotal' = [issuedTotal EXCEPT ![c] = @ + 1]
        /\ pc' = [pc EXCEPT ![p] = "renew_save"]
        /\ UNCHANGED <<now, ticks, redis, opts, isExpired, err, obs, codec, mux,
                       req, api, wh>>

AfterRenew_Retry(p, e) ==
    IF e # "nil" THEN "renew_lock"
    ELSE IF p[2] = Main THEN "ready" ELSE "done"

\* Where RenewToken's caller continues: New returns the client or the
\* error; createRequest sets the Authorization header and returns the
\* request, or returns the error.
AfterRenew(p, e) ==
    IF p[2] = Main THEN (IF e = "nil" THEN "ready" ELSE "new_failed") ELSE "done"

RequestAuth_Shadowed(o, tok) ==
    IF o.Auth = AuthJWT
    THEN [auth |-> "bearer", user |-> "", pass |-> "", token |-> NoToken]
    ELSE [auth |-> "basic", user |-> o.KeyID, pass |-> o.Secret, token |-> NoToken]

RequestAuth_Swapped(o, tok) ==
    IF o.Auth = AuthJWT
    THEN [auth |-> "bearer", user |-> "", pass |-> "", token |-> tok]
    ELSE [auth |-> "basic", user |-> o.Secret, pass |-> o.KeyID, token |-> NoToken]

\* The credential createRequest puts on the request it returns:
\* "Authorization: Bearer <jwtToken>" in JWT mode, SetBasicAuth(KeyID,
\* Secret) in Basic mode.
RequestAuth(o, tok) ==
    IF o.Auth = AuthJWT
    THEN [auth |-> "bearer", user |-> "", pass |-> "", token |-> tok]
    ELSE [auth |-> "basic", user |-> o.KeyID, pass |-> o.Secret, token |-> NoToken]

MtxAfterRenew_Held(p, out) == p

MtxAfterRenew_HeldOnError(p, out) == IF out = "ok" THEN Unlocked ELSE p

\* defer sc.Mtx.Unlock(): whoever holds sc.Mtx when RenewToken returns,
\* with or without an error.
MtxAfterRenew(p, out) == Unlocked

\* err = sc.RedisStorage.SaveTokenToRedis(jwtToken, JWTExpiration), then the
\* deferred sc.Mtx.Unlock() and the return to the caller.
RenewSave(p) ==
    LET c == ClientOf(p)
    IN  /\ pc[p] = "renew_save"
        /\ \E out \in StoreOutcomes :
              /\ IF out = "ok"
                 THEN /\ redis' = SaveTokenToRedis(jwtToken[p], JWTExpiration, now, p)
                      /\ stat' = Bump(stat, p, "writes")
                      /\ req' = IF p[2] = Main THEN req
                                ELSE [req EXCEPT ![p] = RequestAuth(opts[c], jwtToken[p])]
                      /\ mux' = IF p[2] = Main THEN [mux EXCEPT ![c] = TRUE] ELSE mux
                      /\ UNCHANGED <<jwtToken, err>>
                 ELSE /\ err' = [err EXCEPT ![p] = out]
                      /\ jwtToken' = [jwtToken EXCEPT ![p] = NoToken]
                      /\ UNCHANGED <<redis, stat, req, mux>>
              /\ pc' = [pc EXCEPT ![p] = AfterRenew(p, IF out = "ok" THEN "nil" ELSE out)]
              /\ mtx' = [mtx EXCEPT ![c] = MtxAfterRenew(p, out)]
        /\ UNCHANGED <<now, ticks, opts, isExpired, obs, issuedTotal, codec, api, wh>>

(* ----------------------------- createRequest -------------------------- *)

\* createRequest returns: the request with its credential, or the error.
Finish(p, e, tok) ==
    /\ pc' = [pc EXCEPT ![p] = "done"]
    /\ err' = [err EXCEPT ![p] = e]
    /\ jwtToken' = [jwtToken EXCEPT ![p] = tok]
    /\ req' = [req EXCEPT ![p] =
                 IF e = "nil" THEN RequestAuth(opts[ClientOf(p)], tok) ELSE NoReq]

IsJWTExpired_NotFoundIsError(c, r, t) ==
    IF r.err # "nil"
    THEN [expired |-> FALSE, err |-> r.err]
    ELSE isJWTExpired(r.val, opts[c].Secret, t)

\* sc.IsJWTExpired(): the verdict on what the store read returned.  A
\* missing key counts as expired; any other read error is returned.
IsJWTExpired(c, r, t) ==
    IF r.err # "nil"
    THEN (IF r.err = "ErrNil" THEN Expired ELSE [expired |-> FALSE, err |-> r.err])
    ELSE isJWTExpired(r.val, opts[c].Secret, t)

ObsKind(r, v) ==
    IF r.err = "ErrNil" THEN "notfound"
    ELSE IF r.err # "nil" THEN "storeerr"
    ELSE IF v.err # "nil" THEN "malformed"
    ELSE IF v.expired THEN "expired"
    ELSE "valid"

TakesRenewPath_Inverted(v) == ~v.expired

TakesRenewPath_Never(v) == FALSE

\* if isExpired { RenewToken } else { GetTokenFromRedis }
TakesRenewPath(v) == v.expired

\* createRequest up to the branch on isExpired.  In Basic mode the request
\* is built at once with the configured key id and secret.
createRequest(p) ==
    LET c == ClientOf(p)
    IN  /\ p \in Workers
        /\ pc[p] = "idle"
        /\ pc[MainOf(c)] = "ready"
        /\ IF opts[c].Auth = AuthJWT
           THEN \E out \in StoreOutcomes :
                   LET r == IF out = "ok" THEN GetTokenFromRedis(redis, now)
                            ELSE [val |-> NoToken, err |-> out, by |-> Env]
                       v == IsJWTExpired(c, r, now)
                   IN  /\ stat' = Bump(stat, p, "reads")
                       /\ obs' = [obs EXCEPT ![p] =
                                    [kind |-> ObsKind(r, v), tok |-> r.val, by |-> r.by,
                                     ttlEnd |-> IF r.err = "nil" THEN redis.expireAt ELSE 0,
                                     issuedBefore |-> issuedTotal[c],
                                     readTok |-> NoToken]]
                       /\ isExpired' = [isExpired EXCEPT ![p] = v.expired]
                       /\ IF v.err # "nil"
                          THEN Finish(p, v.err, NoToken)
                          ELSE /\ pc' = [pc EXCEPT ![p] =
                                           IF TakesRenewPath(v) THEN "renew_lock"
                                           ELSE "read"]
                               /\ UNCHANGED <<err, jwtToken, req>>
           ELSE /\ Finish(p, "nil", NoToken)
                /\ UNCHANGED <<obs, stat, isExpired>>
        /\ UNCHANGED <<now, ticks, redis, opts, mtx, issuedTotal, codec, mux, api, wh>>

\* The not-expired branch: jwtToken, err = sc.RedisStorage.GetTokenFromRedis()
createRequestRead(p) ==
    /\ pc[p] = "read"
    /\ \E out \in StoreOutcomes :
          LET r == IF out = "ok" THEN GetTokenFromRedis(redis, now)
                   ELSE [val |-> NoToken, err |-> out, by |-> Env]
          IN  /\ Finish(p, r.err, r.val)
              /\ obs' = [obs EXCEPT ![p].readTok = r.val]
    /\ stat' = Bump(stat, p, "reads")
    /\ UNCHANGED <<now, ticks, redis, opts, mtx, isExpired, issuedTotal, codec,
                   mux, api, wh>>

(* ----------------------------- specification -------------------------- *)

Next ==
    \/ Tick
    \/ \E c \in Clients : New(c)
    \/ \E p \in Procs : RenewGenerate(p)
    \/ \E p \in Procs : RenewSave(p)
    \/ \E p \in Workers : createRequest(p)
    \/ \E p \in Workers : createRequestRead(p)

Spec == Init /\ [][Next]_vars

\* Two JWT-mode instances at one instant of the clock, when every store
\* command eventually returns and a goroutine blocked in sc.Mtx.Lock()
\* gets the mutex once it keeps being released (sync.Mutex hands it to a
\* starving waiter).
LiveInit ==
    /\ Init
    /\ opts = [c \in Clients |-> JWTOptions]

LiveNext ==
    \/ \E c \in Clients : New(c)
    \/ \E p \in Procs : RenewGenerate(p)
    \/ \E p \in Procs : RenewSave(p)
    \/ \E p \in Workers : createRequest(p)
    \/ \E p \in Workers : createRequestRead(p)

LiveSpec ==
    /\ LiveInit
    /\ [][LiveNext]_vars
    /\ \A p \in Procs : SF_vars(RenewGenerate(p))
    /\ \A p \in Procs : WF_vars(RenewSave(p))

(* -------------------------------- codec ------------------------------- *)

\* The codec on its own: a token is issued by GenerateJWT, or arrives from
\* elsewhere, and is later checked by isJWTExpired under some secret.

TokenUniverse ==
    {Garbage} \cup
    [kind : {"jwt"}, scope : {"app"}, kid : {"k1"},
     exp : {0, JWTExpiration, Epoch + JWTExpiration}, sig : Secrets]

CodecInit ==
    /\ now = Epoch
    /\ ticks = 0
    /\ redis = EmptyStore
    /\ opts = [c \in Clients |-> [Auth |-> AuthBasic, KeyID |-> "k1",
                                  Secret |-> "s1", RedisPool |-> FALSE]]
    /\ mtx = [c \in Clients |-> Unlocked]
    /\ pc = [p \in Procs |-> IF p[2] = Main THEN "new" ELSE "idle"]
    /\ isExpired = [p \in Procs |-> FALSE]
    /\ jwtToken = [p \in Procs |-> NoToken]
    /\ err = [p \in Procs |-> "nil"]
    /\ obs = [p \in Procs |-> NoObs]
    /\ stat = [p \in Procs |-> NoStat]
    /\ issuedTotal = [c \in Clients |-> 0]
    /\ codec = CodecIdle
    /\ mux = [c \in Clients |-> FALSE]
    /\ req = [p \in Workers |-> NoReq]
    /\ api = [p \in Workers |-> ApiIdle]
    /\ wh = WebhookIdle

CodecIssue ==
    /\ codec.pc = "start"
    /\ \E scope \in Scopes, keyID \in KeyIDs, secret \in Secrets :
          codec' = [codec EXCEPT !.pc = "issued", !.src = "GenerateJWT",
                                 !.scope = scope, !.kid = keyID, !.secret = secret,
                                 !.issuedAt = now,
                                 !.tok = GenerateJWT(scope, keyID, secret)]
    /\ UNCHANGED mainVars

CodecReceive ==
    /\ codec.pc = "start"
    /\ \E tok \in TokenUniverse :
          codec' = [codec EXCEPT !.pc = "issued", !.src = "received",
                                 !.secret = tok.sig, !.tok = tok]
    /\ UNCHANGED mainVars

CodecVerify ==
    /\ codec.pc = "issued"
    /\ \E secret \in Secrets :
          codec' = [codec EXCEPT !.pc = "checked", !.vsecret = secret,
                                 !.checkedAt = now,
                                 !.res = isJWTExpired(codec.tok, secret, now)]
    /\ UNCHANGED mainVars

\* The clock moves to just before, onto, or just past a token lifetime.
CodecTick ==
    /\ ticks < MaxTicks
    /\ \E d \in {1, JWTExpiration - 1, JWTExpiration, JWTExpiration + 1} :
          now' = now + d
    /\ ticks' = ticks + 1
    /\ UNCHANGED <<redis, opts, mtx, pc, isExpired, jwtToken, err, obs, stat,
                   issuedTotal, codec, mux, req, api, wh>>

CodecNext == CodecTick \/ CodecIssue \/ CodecReceive \/ CodecVerify

CodecSpec == CodecInit /\ [][CodecNext]_vars

(* ---------------------------- API operations -------------------------- *)

\* The goroutines that run a whole API operation.
ApiWorkers == {<<"A", 1>>}
ApiProcs == (Clients \X {Main}) \cup ApiWorkers

Ops == {"Send", "SendHSM", "GetAppUser", "PreCreateAppUser",
        "LinkAppUserToChannel", "UploadAttachment", "DeleteAttachment"}

\* The arguments an operation checks before doing anything else.
ArgsOf(op) ==
    CASE op = "Send" -> {"userID", "message", "message.Role", "message.Type"}
      [] op = "PreCreateAppUser" -> {"userID", "surname", "givenName"}
      [] op = "LinkAppUserToChannel" ->
             {"userID", "channelType", "confirmationType", "phoneNumber"}
      [] OTHER -> {}

\* Which arguments of a call are empty; a nil message has no fields.
ArgChoices(op) ==
    {e \in SUBSET ArgsOf(op) :
        "message" \in e => e \cap {"message.Role", "message.Type"} = {}}

ApiValidate_RoleUnchecked(op, e) ==
    CASE op = "Send" ->
             IF "userID" \in e THEN "ErrUserIDEmpty"
             ELSE IF "message" \in e THEN "ErrMessageNil"
             ELSE IF "message.Type" \in e THEN "ErrMessageTypeEmpty"
             ELSE "nil"
      [] op = "PreCreateAppUser" ->
             IF "userID" \in e THEN "ErrUserIDEmpty"
             ELSE IF "surname" \in e THEN "ErrSurnameEmpty"
             ELSE IF "givenName" \in e THEN "ErrGivenNameEmpty"
             ELSE "nil"
      [] op = "LinkAppUserToChannel" ->
             IF "userID" \in e THEN "ErrUserIDEmpty"
             ELSE IF "channelType" \in e THEN "ErrChannelTypeEmpty"
             ELSE IF "confirmationType" \in e THEN "ErrConfirmationTypeEmpty"
             ELSE IF "phoneNumber" \in e THEN "ErrPhonenumberEmpty"
             ELSE "nil"
      [] OTHER -> "nil"

\* The argument checks at the head of Send, PreCreateAppUser and
\* LinkAppUserToChannel, in the order the code makes them; the other
\* operations check nothing.
ApiValidate(op, e) ==
    CASE op = "Send" ->
             IF "userID" \in e THEN "ErrUserIDEmpty"
             ELSE IF "message" \in e THEN "ErrMessageNil"
             ELSE IF "message.Role" \in e THEN "ErrMessageRoleEmpty"
             ELSE IF "message.Type" \in e THEN "ErrMessageTypeEmpty"
             ELSE "nil"
      [] op = "PreCreateAppUser" ->
             IF "userID" \in e THEN "ErrUserIDEmpty"
             ELSE IF "surname" \in e THEN "ErrSurnameEmpty"
             ELSE IF "givenName" \in e THEN "ErrGivenNameEmpty"
             ELSE "nil"
      [] op = "LinkAppUserToChannel" ->
             IF "userID" \in e THEN "ErrUserIDEmpty"
             ELSE IF "channelType" \in e THEN "ErrChannelTypeEmpty"
             ELSE IF "confirmationType" \in e THEN "ErrConfirmationTypeEmpty"
             ELSE IF "phoneNumber" \in e THEN "ErrPhonenumberEmpty"
             ELSE "nil"
      [] OTHER -> "nil"

\* Whether the operation hands sendRequest a value to decode the body into
\* (DeleteAttachment passes nil).
WantsPayload(op) == op # "DeleteAttachment"

\* The bounds of the status codes sendRequest takes for success.
StatusOKMin == 200
StatusOKEnd == 300
StatusUnauthorized == 401

Statuses == {StatusOKMin - 1, StatusOKMin, StatusOKEnd - 1, StatusOKEnd,
             StatusUnauthorized}

\* What HttpClient.Do gives back: a transport error, or a response with a
\* status code and a body that decodes as JSON or does not.
Responses ==
    {[kind |-> "transport", status |-> 0, body |-> "none"]} \cup
    [kind : {"response"}, status : Statuses, body : {"json", "bad"}]

\* checkSmoochError(response)
checkSmoochError(resp) ==
    IF resp.body = "bad"
    THEN [respData |-> 0, err |-> "DecodeError", code |-> 0]
    ELSE [respData |-> resp.status, err |-> "SmoochError", code |-> resp.status]

\* sendRequest(req, v) once HttpClient.Do has returned; respData 0 stands
\* for the nil *ResponseData.
sendRequest(resp, v) ==
    IF resp.kind = "transport"
    THEN [respData |-> 0, err |-> "TransportError", code |-> 0]
    ELSE IF resp.status >= StatusOKMin /\ resp.status < StatusOKEnd
    THEN (IF v /\ resp.body = "bad"
          THEN [respData |-> 0, err |-> "DecodeError", code |-> 0]
          ELSE [respData |-> resp.status, err |-> "nil", code |-> 0])
    ELSE checkSmoochError(resp)

ApiInit ==
    /\ now = Epoch
    /\ ticks = 0
    /\ redis \in StoreInits
    /\ opts \in {o \in [Clients -> OptionSet] : o["B"] = JWTOptions}
    /\ mtx = [c \in Clients |-> Unlocked]
    /\ pc = [p \in Procs |-> IF p[2] = Main THEN "new"
                             ELSE IF p \in ApiWorkers THEN "api" ELSE "idle"]
    /\ isExpired = [p \in Procs |-> FALSE]
    /\ jwtToken = [p \in Procs |-> NoToken]
    /\ err = [p \in Procs |-> "nil"]
    /\ obs = [p \in Procs |-> NoObs]
    /\ stat = [p \in Procs |-> NoStat]
    /\ issuedTotal = [c \in Clients |-> 0]
    /\ codec = CodecIdle
    /\ mux = [c \in Clients |-> FALSE]
    /\ req = [p \in Workers |-> NoReq]
    /\ api = [p \in Workers |-> ApiIdle]
    /\ wh = WebhookIdle

\* The head of an operation: the argument checks; a failed check returns
\* at once, otherwise the operation goes on to build its request.
ApiStartOf(p, ops) ==
    /\ pc[p] = "api"
    /\ pc[MainOf(ClientOf(p))] = "ready"
    /\ \E op \in ops : \E e \in ArgChoices(op) :
          /\ api' = [api EXCEPT ![p] = [@ EXCEPT !.op = op, !.empty = e,
                                                 !.err = ApiValidate(op, e)]]
          /\ pc' = [pc EXCEPT ![p] =
                       IF ApiValidate(op, e) # "nil" THEN "returned" ELSE "idle"]
    /\ UNCHANGED <<now, ticks, redis, opts, mtx, isExpired, jwtToken, err, obs,
                   stat, issuedTotal, codec, mux, req, wh>>

ApiStart(p) == ApiStartOf(p, Ops)

SendsAfterCreate_Regardless(e) == TRUE

\* req, err := sc.createRequest(...); if err != nil { return ..., err }
SendsAfterCreate(e) == e = "nil"

\* After createRequest: its error is returned, or the request goes out
\* through HttpClient.Do.
ApiDo(p) ==
    /\ p \in ApiWorkers
    /\ pc[p] = "done"
    /\ IF SendsAfterCreate(err[p])
       THEN /\ api' = [api EXCEPT ![p] = [@ EXCEPT !.sent = TRUE,
                                                   !.sentAuth = req[p].auth]]
            /\ pc' = [pc EXCEPT ![p] = "http"]
       ELSE /\ api' = [api EXCEPT ![p] = [@ EXCEPT !.err = err[p]]]
            /\ pc' = [pc EXCEPT ![p] = "returned"]
    /\ UNCHANGED <<now, ticks, redis, opts, mtx, isExpired, jwtToken, err, obs,
                   stat, issuedTotal, codec, mux, req, wh>>

\* HttpClient.Do returns and sendRequest turns the outcome into the
\* operation's results: the payload is non-nil only when err is nil.
ApiResponse(p) ==
    /\ pc[p] = "http"
    /\ \E resp \in Responses :
          LET out == sendRequest(resp, WantsPayload(api[p].op))
          IN  api' = [api EXCEPT ![p] =
                        [@ EXCEPT !.status = resp.status, !.body = resp.body,
                                  !.err = out.err, !.code = out.code,
                                  !.respData = out.respData,
                                  !.payload = (out.err = "nil" /\ WantsPayload(api[p].op))]]
    /\ pc' = [pc EXCEPT ![p] = "returned"]
    /\ UNCHANGED <<now, ticks, redis, opts, mtx, isExpired, jwtToken, err, obs,
                   stat, issuedTotal, codec, mux, req, wh>>

ApiNext ==
    \/ Tick
    \/ \E c \in Clients : New(c)
    \/ \E p \in ApiProcs : RenewGenerate(p)
    \/ \E p \in ApiProcs : RenewSave(p)
    \/ \E p \in ApiWorkers : ApiStart(p)
    \/ \E p \in ApiWorkers : createRequest(p)
    \/ \E p \in ApiWorkers : createRequestRead(p)
    \/ \E p \in ApiWorkers : ApiDo(p)
    \/ \E p \in ApiWorkers : ApiResponse(p)

ApiSpec == ApiInit /\ [][ApiNext]_vars

\* An API operation of one goroutine next to a second goroutine of the same
\* JWT-mode client that builds a request of its own.
ApiOthers == {<<"A", 2>>}
PairOps == {"GetAppUser", "DeleteAttachment"}

ApiPairInit ==
    /\ ApiInit
    /\ opts = [c \in Clients |-> JWTOptions]

ApiPairNext ==
    \/ Tick
    \/ \E c \in Clients : New(c)
    \/ \E p \in ApiProcs \cup ApiOthers : RenewGenerate(p)
    \/ \E p \in ApiProcs \cup ApiOthers : RenewSave(p)
    \/ \E p \in ApiWorkers : ApiStartOf(p, PairOps)
    \/ \E p \in ApiWorkers \cup ApiOthers : createRequest(p)
    \/ \E p \in ApiWorkers \cup ApiOthers : createRequestRead(p)
    \/ \E p \in ApiWorkers : ApiDo(p)
    \/ \E p \in ApiWorkers : ApiResponse(p)

ApiPairSpec == ApiPairInit /\ [][ApiPairNext]_vars

(* -------------------------------- webhook ----------------------------- *)

\* How many handlers get registered and how many requests arrive.
MaxHandlers == 2
MaxEvents == 2

\* The two client types of the package: smoochClient holds a verify secret,
\* SmoochClient is the one that renews its token.
Variants == {"smoochClient", "SmoochClient"}

HandlerNames == {"h1", "h2"}

\* The configured verify secret and what X-Api-Key may hold ("" when the
\* header is absent).
VerifySecret == "vs"
ApiKeys == {VerifySecret, "wrong", ""}

\* A request to the webhook route: method, X-Api-Key, and a body that
\* decodes as a Payload, does not, or cannot be read.  The one request of
\* another method is the one that passes every other check.
WebhookRequests ==
    [method : {"POST"}, key : ApiKeys, body : {"json", "bad", "readerr"}] \cup
    {[method |-> "GET", key |-> VerifySecret, body |-> "json"]}

StatusOK == 200
StatusBadRequest == 400
StatusUnprocessableEntity == 422
StatusInternalServerError == 500

\* sc.verifySecret == r.Header.Get("X-Api-Key")
VerifyRequest(r) == r.key = VerifySecret

\* The status handle answers with; only StatusOK goes on to dispatch.
\* smoochClient.handle rejects a wrong method or a failed VerifyRequest,
\* SmoochClient.handle rejects a wrong method only.
HandleStatus(variant, r) ==
    IF variant = "smoochClient"
    THEN (IF r.method # "POST" \/ ~VerifyRequest(r) THEN StatusBadRequest
          ELSE IF r.body = "readerr" THEN StatusInternalServerError
          ELSE IF r.body = "bad" THEN StatusUnprocessableEntity
          ELSE StatusOK)
    ELSE (IF r.method # "POST" THEN StatusBadRequest
          ELSE IF r.body = "readerr" THEN StatusInternalServerError
          ELSE IF r.body = "bad" THEN StatusUnprocessableEntity
          ELSE StatusOK)

WebhookInit ==
    /\ now = Epoch
    /\ ticks = 0
    /\ redis = EmptyStore
    /\ opts = [c \in Clients |-> [Auth |-> AuthBasic, KeyID |-> "k1",
                                  Secret |-> "s1", RedisPool |-> FALSE]]
    /\ mtx = [c \in Clients |-> Unlocked]
    /\ pc = [p \in Procs |-> IF p[2] = Main THEN "ready" ELSE "idle"]
    /\ isExpired = [p \in Procs |-> FALSE]
    /\ jwtToken = [p \in Procs |-> NoToken]
    /\ err = [p \in Procs |-> "nil"]
    /\ obs = [p \in Procs |-> NoObs]
    /\ stat = [p \in Procs |-> NoStat]
    /\ issuedTotal = [c \in Clients |-> 0]
    /\ codec = CodecIdle
    /\ mux = [c \in Clients |-> TRUE]
    /\ req = [p \in Workers |-> NoReq]
    /\ api = [p \in Workers |-> ApiIdle]
    /\ wh \in [variant : Variants, handlers : {<<>>}, adding : {""},
                events : {<<>>}, log : {<<>>}]

\* A call of AddWebhookEventHandler(handler) begins.
AddWebhookEventHandler(h) ==
    /\ wh.adding = ""
    /\ Len(wh.handlers) < MaxHandlers
    /\ wh' = [wh EXCEPT !.adding = h]
    /\ UNCHANGED <<now, ticks, redis, opts, mtx, pc, isExpired, jwtToken, err,
                   obs, stat, issuedTotal, codec, mux, req, api>>

\* sc.webhookEventHandlers = append(sc.webhookEventHandlers, handler) is
\* done and the call returns.
AddWebhookEventHandlerReturn ==
    /\ wh.adding # ""
    /\ wh' = [wh EXCEPT !.handlers = Append(@, wh.adding), !.adding = ""]
    /\ UNCHANGED <<now, ticks, redis, opts, mtx, pc, isExpired, jwtToken, err,
                   obs, stat, issuedTotal, codec, mux, req, api>>

\* The slice "range sc.webhookEventHandlers" evaluates.  The slice is not
\* guarded by any lock: while an append is under way the range sees the
\* slice without or with the handler being added.
RangeValues ==
    {wh.handlers} \cup
    (IF wh.adding = "" THEN {} ELSE {Append(wh.handlers, wh.adding)})

\* handle(w, r) up to the call of dispatch: the status written, and for an
\* accepted request the handler slice dispatch is about to range over
\* (registered and adding record what was registered at that moment).
handle(r) ==
    /\ Len(wh.events) < MaxEvents
    /\ \E hs \in RangeValues :
          wh' = [wh EXCEPT !.events =
                   Append(@, [req |-> r,
                              status |-> HandleStatus(wh.variant, r),
                              registered |-> wh.handlers,
                              adding |-> wh.adding,
                              handlers |-> IF HandleStatus(wh.variant, r) = StatusOK
                                           THEN hs ELSE <<>>,
                              next |-> 1])]
    /\ UNCHANGED <<now, ticks, redis, opts, mtx, pc, isExpired, jwtToken, err,
                   obs, stat, issuedTotal, codec, mux, req, api>>

NextHandler_Reversed(handlers, i) == handlers[Len(handlers) + 1 - i]

\* The i-th iteration of "for _, handler := range sc.webhookEventHandlers".
NextHandler(handlers, i) == handlers[i]

\* One iteration of dispatch for the e-th request: handler(p).
dispatch(e) ==
    /\ e \in 1..Len(wh.events)
    /\ wh.events[e].next <= Len(wh.events[e].handlers)
    /\ wh' = [wh EXCEPT
                !.log = Append(@, [ev |-> e,
                                   h |-> NextHandler(wh.events[e].handlers,
                                                     wh.events[e].next)]),
                !.events[e].next = @ + 1]
    /\ UNCHANGED <<now, ticks, redis, opts, mtx, pc, isExpired, jwtToken, err,
                   obs, stat, issuedTotal, codec, mux, req, api>>

WebhookNext ==
    \/ \E h \in HandlerNames : AddWebhookEventHandler(h)
    \/ AddWebhookEventHandlerReturn
    \/ \E r \in WebhookRequests : handle(r)
    \/ \E e \in 1..MaxEvents : dispatch(e)

WebhookSpec == WebhookInit /\ [][WebhookNext]_vars

(* ------------------------- the non-renewing client -------------------- *)

\* smoochClient: New issues the token once and keeps it in the jwtToken
\* field (jwtToken[MainOf(c)] here); sendRequest attaches that field.

\* GenerateJWT as the non-renewing client has it: the claims hold the scope
\* only, there is no exp.
GenerateJWTNoExp(scope, keyID, secret) ==
    [kind |-> "jwt", scope |-> scope, kid |-> keyID, exp |-> 0, sig |-> secret]

StaticOptions == [KeyID |-> "k1", Secret |-> "s1", VerifySecret |-> VerifySecret]

\* New checks the verify secret only; an empty KeyID or Secret is accepted.
StaticOptionSet ==
    [KeyID : {"k1", ""}, Secret : {"s1", ""}, VerifySecret : {VerifySecret, ""}]

StaticOps == {"Send", "GetAppUser"}

\* The goroutines that call the client's operations.
StaticWorkers == {<<"A", 1>>, <<"A", 2>>}

StaticInit ==
    /\ now = Epoch
    /\ ticks = 0
    /\ redis = EmptyStore
    /\ opts \in {o \in [Clients -> StaticOptionSet] : o["B"] = StaticOptions}
    /\ mtx = [c \in Clients |-> Unlocked]
    /\ pc = [p \in Procs |-> IF p[2] = Main THEN "new" ELSE "idle"]
    /\ isExpired = [p \in Procs |-> FALSE]
    /\ jwtToken = [p \in Procs |-> NoToken]
    /\ err = [p \in Procs |-> "nil"]
    /\ obs = [p \in Procs |-> NoObs]
    /\ stat = [p \in Procs |-> NoStat]
    /\ issuedTotal = [c \in Clients |-> 0]
    /\ codec = CodecIdle
    /\ mux = [c \in Clients |-> FALSE]
    /\ req = [p \in Workers |-> NoReq]
    /\ api = [p \in Workers |-> ApiIdle]
    /\ wh = WebhookIdle

\* New(o) of the non-renewing client; obs records the token it issued.
StaticNew(c) ==
    LET m == MainOf(c)
        o == opts[c]
        tok == GenerateJWTNoExp("app", o.KeyID, o.Secret)
    IN  /\ pc[m] = "new"
        /\ IF o.VerifySecret = ""
           THEN /\ pc' = [pc EXCEPT ![m] = "new_failed"]
                /\ err' = [err EXCEPT ![m] = "ErrVerifySecretEmpty"]
                /\ UNCHANGED <<jwtToken, stat, issuedTotal, obs, mux>>
           ELSE /\ jwtToken' = [jwtToken EXCEPT ![m] = tok]
                /\ stat' = Bump(stat, m, "issued")
                /\ issuedTotal' = [issuedTotal EXCEPT ![c] = @ + 1]
                /\ obs' = [obs EXCEPT ![m] = [NoObs EXCEPT !.kind = "issued", !.tok = tok]]
                /\ mux' = [mux EXCEPT ![c] = TRUE]
                /\ pc' = [pc EXCEPT ![m] = "ready"]
                /\ err' = err
        /\ UNCHANGED <<now, ticks, redis, opts, mtx, isExpired, codec, req, api, wh>>

StaticRequest_Blank(tok) ==
    [auth |-> "bearer", user |-> "", pass |-> "", token |-> NoToken]

\* req.Header.Set("Authorization", fmt.Sprintf("Bearer %s", sc.jwtToken))
StaticRequest(tok) ==
    [auth |-> "bearer", user |-> "", pass |-> "", token |-> tok]

\* Send or GetAppUser up to httpClient.Do: the argument checks of Send,
\* then sendRequest builds the request and sends it.  A goroutine makes
\* one call after another.
StaticCall(p) ==
    LET m == MainOf(ClientOf(p))
    IN  /\ p \in StaticWorkers
        /\ pc[p] \in {"idle", "returned"}
        /\ pc[m] = "ready"
        /\ \E op \in StaticOps : \E e \in ArgChoices(op) :
              IF ApiValidate(op, e) # "nil"
              THEN /\ api' = [api EXCEPT ![p] =
                                [ApiIdle EXCEPT !.op = op, !.empty = e,
                                                !.err = ApiValidate(op, e)]]
                   /\ req' = [req EXCEPT ![p] = NoReq]
                   /\ pc' = [pc EXCEPT ![p] = "returned"]
              ELSE /\ api' = [api EXCEPT ![p] =
                                [ApiIdle EXCEPT !.op = op, !.sent = TRUE,
                                                !.sentAuth = "bearer"]]
                   /\ req' = [req EXCEPT ![p] = StaticRequest(jwtToken[m])]
                   /\ pc' = [pc EXCEPT ![p] = "http"]
        /\ UNCHANGED <<now, ticks, redis, opts, mtx, isExpired, jwtToken, err,
                       obs, stat, issuedTotal, codec, mux, wh>>

\* httpClient.Do returns and sendRequest decodes the body or the error.
StaticResponse(p) ==
    /\ pc[p] = "http"
    /\ \E resp \in Responses :
          LET out == sendRequest(resp, TRUE)
          IN  api' = [api EXCEPT ![p] =
                        [@ EXCEPT !.status = resp.status, !.body = resp.body,
                                  !.err = out.err, !.code = out.code,
                                  !.payload = (out.err = "nil")]]
    /\ pc' = [pc EXCEPT ![p] = "returned"]
    /\ UNCHANGED <<now, ticks, redis, opts, mtx, isExpired, jwtToken, err, obs,
                   stat, issuedTotal, codec, mux, req, wh>>

StaticNext ==
    \/ Tick
    \/ \E c \in Clients : StaticNew(c)
    \/ \E p \in StaticWorkers : StaticCall(p)
    \/ \E p \in StaticWorkers : StaticResponse(p)

StaticSpec == StaticInit /\ [][StaticNext]_vars

(* ------------------------------- claims ------------------------------- *)

RECURSIVE SumStat(_, _)
SumStat(S, field) ==
    IF S = {} THEN 0
    ELSE LET p == CHOOSE q \in S : TRUE
         IN  stat[p][field] + SumStat(S \ {p}, field)

\* The goroutines whose expiry check saw the token expired or absent while
\* the instance had issued k tokens so far: none of them had renewed yet
\* when the others looked.
Burst(k) ==
    {p \in Workers : isExpired[p] /\ obs[p].kind \in {"expired", "notfound"}
                     /\ obs[p].issuedBefore = k}

BurstOver(B) == Cardinality(B) >= 2 /\ \A p \in B : pc[p] = "done"

\* C1 (as stated): a burst of N >= 2 goroutines that all saw the token
\* expired or absent before any of them renewed costs one issuance and one
\* store write in total.
C1_Original ==
    \A k \in 0..(NumGoroutines + 1) :
        LET B == Burst(k)
        IN  (BurstOver(B) /\ \A p \in B : err[p] = "nil")
            => SumStat(B, "issued") = 1 /\ SumStat(B, "writes") = 1

\* C1 (amended): every goroutine of such a burst renews for itself, so the
\* burst costs N issuances, and one store write per goroutine whose write
\* did not fail.
C1_Amended ==
    \A k \in 0..(NumGoroutines + 1) :
        LET B == Burst(k)
        IN  BurstOver(B)
            => /\ \A p \in B : stat[p].issued = 1
               /\ SumStat(B, "issued") = Cardinality(B)
               /\ SumStat(B, "writes") = Cardinality({p \in B : err[p] = "nil"})

C1_Witness ==
    \E k \in 0..(NumGoroutines + 1) :
        BurstOver(Burst(k)) /\ \A p \in Burst(k) : err[p] = "nil"

\* C2: within one instance at most one goroutine is between its GenerateJWT
\* and the completion of its SaveTokenToRedis, and it is the holder of Mtx.
C2_MutualExclusion ==
    \A c \in Clients :
        LET inside == {p \in Procs : ClientOf(p) = c /\ pc[p] = "renew_save"}
        IN  /\ Cardinality(inside) <= 1
            /\ \A p \in inside : mtx[c] = p

C2_Witness ==
    \E p, q \in Workers :
        p # q /\ pc[p] = "renew_save" /\ pc[q] = "renew_lock"

\* C3 (as stated): a token from GenerateJWT, checked at once with the same
\* secret, is reported valid: (false, nil).
C3_Original ==
    (codec.pc = "checked" /\ codec.src = "GenerateJWT"
        /\ codec.vsecret = codec.secret /\ codec.checkedAt = codec.issuedAt)
    => codec.res = Valid

\* C4 (as stated): a token issued at t is reported not expired at every
\* check time before t + JWTExpiration and expired from t + JWTExpiration on.
C4_Original ==
    (codec.pc = "checked" /\ codec.src = "GenerateJWT"
        /\ codec.vsecret = codec.secret)
    => IF codec.checkedAt < codec.issuedAt + JWTExpiration
       THEN codec.res = Valid
       ELSE codec.res = Expired

\* C5 (as stated): the exp claim of a token issued at t is t + JWTExpiration.
C5_Original ==
    codec.src = "GenerateJWT"
    => codec.tok.exp = codec.issuedAt + JWTExpiration

\* C6: a token signed with one secret is never reported valid by
\* isJWTExpired under a different secret, expired or not.
C6_SignatureIsolation ==
    (codec.pc = "checked" /\ codec.tok.kind = "jwt"
        /\ codec.vsecret # codec.tok.sig)
    => codec.res # Valid

C6_Witness ==
    /\ codec.pc = "checked"
    /\ codec.tok.kind = "jwt"
    /\ codec.vsecret # codec.tok.sig
    /\ verifyExp(codec.tok.exp, codec.checkedAt)
    /\ codec.res = Invalid

\* C7 (as stated): a JWT-mode call that saw the token expired or absent and
\* returns successfully attaches a token that isJWTExpired, with the
\* instance's secret at the moment of the return, reports valid.
C7_Original ==
    [][\A p \in Workers :
          (pc[p] # "done" /\ pc'[p] = "done" /\ err'[p] = "nil"
              /\ opts[ClientOf(p)].Auth = AuthJWT /\ isExpired'[p])
          => isJWTExpired(jwtToken'[p], opts[ClientOf(p)].Secret, now') = Valid]_vars

C9_Original ==
    \A p \in Workers :
        LET w == obs[p].by
        IN  (pc[p] = "done" /\ w \in Procs /\ ClientOf(w) = ClientOf(p)
                /\ obs[w].kind = "notfound"
                /\ now < obs[p].ttlEnd
                /\ obs[p].ttlEnd <= now + JWTExpiration
                /\ \A q \in Procs : ClientOf(q) # ClientOf(p) => stat[q].writes = 0)
            => /\ stat[p].issued = 0
               /\ stat[p].writes = 0
               /\ err[p] = "nil" => jwtToken[p] = obs[p].tok

\* C10 (as stated): a stored value that does not parse, or whose signature
\* does not verify under the instance's secret, makes the next request
\* renew; the validation error is not returned to the caller.
C10_Original ==
    \A p \in Workers :
        (pc[p] = "done" /\ obs[p].kind = "malformed")
        => err[p] # "ValidationError" /\ stat[p].issued = 1

\* C11 (as stated): a request-building call in JWT mode never returns the
\* store's not-found error to its caller, also when the key expires by TTL
\* between the expiry check and the read that follows it.
C11_Original ==
    \A p \in Workers :
        (pc[p] = "done" /\ opts[ClientOf(p)].Auth = AuthJWT) => err[p] # "ErrNil"

\* C12: in JWT mode, when building the request fails to obtain a token, the
\* API operation returns that same error and makes no HTTP call; every
\* request that goes out carries a Bearer Authorization header.
C12_NoSendWithoutToken ==
    \A p \in ApiWorkers :
        opts[ClientOf(p)].Auth = AuthJWT
        => /\ (pc[p] = "returned" /\ err[p] # "nil")
                => ~api[p].sent /\ api[p].err = err[p] /\ ~api[p].payload
           /\ api[p].sent => err[p] = "nil" /\ api[p].sentAuth = "bearer"
                             /\ req[p].token # NoToken

C12_Witness ==
    \E p \in ApiWorkers :
        /\ opts[ClientOf(p)].Auth = AuthJWT
        /\ pc[p] = "returned"
        /\ err[p] = "ErrStore"
        /\ stat[p].issued = 1
        /\ ~api[p].sent

Refused(c, e) ==
    /\ pc[MainOf(c)] = "new_failed"
    /\ err[MainOf(c)] = e
    /\ stat[MainOf(c)] = NoStat
    /\ redis.by # MainOf(c)
    /\ ~mux[c]

\* C13: New returns no client and the error of the first check that fails:
\* ErrKeyIDEmpty for an empty KeyID, ErrSecretEmpty for an empty Secret,
\* ErrWrongAuth for an Auth that is neither basic nor JWT, ErrRedisNil for
\* JWT without a RedisPool; it has then not touched the store, issued no
\* token, and registered no webhook route.
C13_NewRefuses ==
    \A c \in Clients :
        LET o == opts[c]
        IN  pc[MainOf(c)] # "new"
            => /\ o.KeyID = "" => Refused(c, "ErrKeyIDEmpty")
               /\ (o.KeyID # "" /\ o.Secret = "") => Refused(c, "ErrSecretEmpty")
               /\ (o.KeyID # "" /\ o.Secret # "" /\ o.Auth \notin {AuthBasic, AuthJWT})
                     => Refused(c, "ErrWrongAuth")
               /\ (o.KeyID # "" /\ o.Secret # "" /\ o.Auth = AuthJWT /\ ~o.RedisPool)
                     => Refused(c, "ErrRedisNil")

C13_Witness ==
    /\ opts["A"].Auth = AuthJWT
    /\ ~opts["A"].RedisPool
    /\ pc[MainOf("A")] = "new_failed"
    /\ err[MainOf("A")] = "ErrRedisNil"
    /\ pc[MainOf("B")] = "ready"

\* C14: in Basic mode no operation of the client reads or writes the store
\* or issues a token, and the request it builds carries Basic credentials
\* made of the configured KeyID and Secret and nothing else.
C14_BasicNoStore ==
    \A c \in Clients :
        opts[c].Auth = AuthBasic
        => \A p \in Procs :
              ClientOf(p) = c
              => /\ stat[p] = NoStat
                 /\ redis.by # p
                 /\ jwtToken[p] = NoToken
                 /\ (p \in Workers /\ pc[p] = "done")
                       => /\ err[p] = "nil"
                          /\ req[p] = [auth |-> "basic", user |-> opts[c].KeyID,
                                       pass |-> opts[c].Secret, token |-> NoToken]

C14_Witness ==
    /\ opts["A"].Auth = AuthBasic
    /\ \A p \in Workers : pc[p] = "done" /\ req[p].auth = "basic"
    /\ redis.by = MainOf("B")

\* C15: in JWT mode every request-building call reads the store before it
\* attaches a credential, and the Bearer token it attaches is the one its
\* own second read returned or the one it issued itself in that call.
C15_TokenFromThisCall ==
    \A p \in Workers :
        LET c == ClientOf(p)
        IN  (opts[c].Auth = AuthJWT /\ pc[p] # "idle")
            => /\ stat[p].reads >= 1
               /\ (pc[p] = "done" /\ err[p] # "nil") => req[p] = NoReq
               /\ (pc[p] = "done" /\ err[p] = "nil")
                     => /\ req[p].auth = "bearer"
                        /\ req[p].token # NoToken
                        /\ \/ /\ stat[p].reads = 2
                              /\ stat[p].issued = 0
                              /\ req[p].token = obs[p].readTok
                           \/ /\ stat[p].reads = 1
                              /\ stat[p].issued = 1
                              /\ req[p].token =
                                    GenerateJWT("app", opts[c].KeyID, opts[c].Secret)

C15_Witness ==
    \E p, q \in Workers :
        /\ pc[p] = "done" /\ err[p] = "nil"
        /\ stat[p].reads = 2 /\ req[p].token = obs[p].readTok
        /\ pc[q] = "done" /\ err[q] = "nil"
        /\ stat[q].issued = 1 /\ req[q].auth = "bearer"

Wrote(p) == stat'[p].writes = stat[p].writes + 1

\* C16: a renewal's store write replaces the whole value, whatever was
\* there and whoever wrote it: right after the write the store holds
\* exactly that writer's token with a fresh TTL.  The value then stays
\* until the next write or until its TTL has run out, and a read in
\* between returns it.
C16_LastWriterWins ==
    [][ /\ \A p \in Procs :
              Wrote(p) => redis' = [val |-> jwtToken[p],
                                    expireAt |-> now + JWTExpiration, by |-> p]
        /\ redis' # redis
              => \/ \E p \in Procs : Wrote(p)
                 \/ redis' = EmptyStore /\ now' >= redis.expireAt
        /\ \A p \in Workers :
              (pc[p] = "read" /\ pc'[p] = "done" /\ err'[p] = "nil")
              => jwtToken'[p] = redis.val /\ req'[p].token = redis.val
      ]_vars

C16_Witness ==
    /\ redis.by = MainOf("B")
    /\ redis.val = jwtToken[MainOf("B")]
    /\ stat[MainOf("A")].writes = 1
    /\ \E p \in Workers : stat[p].writes = 1

\* The handlers invoked so far for the e-th request, in invocation order.
LogOf(e) ==
    LET OfEvent(x) == x.ev = e
        sel == SelectSeq(wh.log, OfEvent)
    IN  [i \in 1..Len(sel) |-> sel[i].h]

Accepted(e) == wh.events[e].status = StatusOK

\* C17: for every accepted webhook request the handlers registered when it
\* was accepted are invoked once each, in registration order: k registered
\* handlers give k invocations once dispatch is through (one more at most,
\* the last, when a registration was under way at that moment).  A request
\* that is not accepted invokes none.
C17_DispatchInOrder ==
    \A e \in 1..Len(wh.events) :
        LET ev == wh.events[e]
        IN  /\ LogOf(e) = SubSeq(ev.handlers, 1, ev.next - 1)
            /\ ~Accepted(e) => ev.handlers = <<>>
            /\ Accepted(e)
                  => \/ ev.handlers = ev.registered
                     \/ ev.adding # "" /\ ev.handlers = Append(ev.registered, ev.adding)

C17_Witness ==
    \E e \in 1..Len(wh.events) :
        /\ Accepted(e)
        /\ wh.events[e].registered = <<"h2", "h1">>
        /\ LogOf(e) = <<"h2", "h1">>
        /\ Len(wh.log) > 2

\* C18 (as stated): handlers are invoked only for a POST request whose
\* X-Api-Key equals the verify secret and whose body decodes; a request of
\* another method or with another key is answered 400, one with an
\* undecodable body 422.
C18_Original ==
    \A e \in 1..Len(wh.events) :
        LET ev == wh.events[e]
        IN  /\ (Accepted(e) \/ LogOf(e) # <<>>)
                  => /\ ev.req.method = "POST"
                     /\ ev.req.key = VerifySecret
                     /\ ev.req.body = "json"
            /\ (ev.req.method # "POST" \/ ev.req.key # VerifySecret)
                  => ev.status = StatusBadRequest
            /\ (ev.req.method = "POST" /\ ev.req.key = VerifySecret
                   /\ ev.req.body = "bad")
                  => ev.status = StatusUnprocessableEntity

\* The parameters of an operation in the order it checks them, and the
\* error that goes with each.
ArgOrder(op) ==
    CASE op = "Send" -> <<"userID", "message", "message.Role", "message.Type">>
      [] op = "PreCreateAppUser" -> <<"userID", "surname", "givenName">>
      [] op = "LinkAppUserToChannel" ->
             <<"userID", "channelType", "confirmationType", "phoneNumber">>
      [] OTHER -> <<>>

ArgError(arg) ==
    CASE arg = "userID" -> "ErrUserIDEmpty"
      [] arg = "message" -> "ErrMessageNil"
      [] arg = "message.Role" -> "ErrMessageRoleEmpty"
      [] arg = "message.Type" -> "ErrMessageTypeEmpty"
      [] arg = "surname" -> "ErrSurnameEmpty"
      [] arg = "givenName" -> "ErrGivenNameEmpty"
      [] arg = "channelType" -> "ErrChannelTypeEmpty"
      [] arg = "confirmationType" -> "ErrConfirmationTypeEmpty"
      [] arg = "phoneNumber" -> "ErrPhonenumberEmpty"

FirstEmpty(op, e) ==
    LET i == CHOOSE k \in 1..Len(ArgOrder(op)) :
                /\ ArgOrder(op)[k] \in e
                /\ \A j \in 1..(k - 1) : ArgOrder(op)[j] \notin e
    IN  ArgOrder(op)[i]

\* C19: Send, PreCreateAppUser and LinkAppUserToChannel check their
\* arguments before anything else: a call with an empty argument returns
\* the error of the first empty one (for Send: user id, nil message, role,
\* type) with nil results, and has then read nothing from the store,
\* issued no token, built no request and made no HTTP call.
C19_ValidationFirst ==
    \A p \in ApiWorkers :
        api[p].empty # {}
        => /\ pc[p] = "returned"
           /\ api[p].err = ArgError(FirstEmpty(api[p].op, api[p].empty))
           /\ ~api[p].payload
           /\ api[p].respData = 0
           /\ ~api[p].sent
           /\ stat[p] = NoStat
           /\ req[p] = NoReq
           /\ redis.by # p

C19_Witness ==
    \E p \in ApiWorkers :
        /\ opts[ClientOf(p)].Auth = AuthJWT
        /\ pc[p] = "returned"
        /\ api[p].op = "Send"
        /\ api[p].empty = {"message.Role", "message.Type"}
        /\ api[p].err = "ErrMessageRoleEmpty"

\* C20 (as stated): once the HTTP response is in, the operation succeeds
\* exactly for a status in [200, 300), returning the decoded payload and
\* no error; for any other status it returns a nil payload and a
\* SmoochError whose Code() is that status.
C20_Original ==
    \A p \in ApiWorkers :
        (pc[p] = "returned" /\ api[p].sent /\ api[p].body # "none")
        => IF api[p].status >= StatusOKMin /\ api[p].status < StatusOKEnd
           THEN /\ api[p].err = "nil"
                /\ WantsPayload(api[p].op) => api[p].payload
           ELSE /\ ~api[p].payload
                /\ api[p].err = "SmoochError"
                /\ api[p].code = api[p].status

\* The token in jwtToken[p] is one p issued itself.
HoldsOwnToken(p) == stat[p].issued = 1 /\ jwtToken[p] # NoToken

C22_Original ==
    [][ \A p \in Procs :
           (Wrote(p) /\ redis.val # NoToken) => redis'.val # redis.val ]_vars

\* C23: a goroutine whose request is out with HttpClient.Do does not hold
\* the client's mutex: the mutex is held only by a goroutine that is inside
\* RenewToken, between issuing and storing.  A goroutine waiting for the
\* mutex is therefore never waiting for an API call.
C23_NoLockAcrossHTTP ==
    \A p \in Procs :
        /\ pc[p] \in {"http", "returned", "done", "idle", "api", "read"}
              => mtx[ClientOf(p)] # p
        /\ mtx[ClientOf(p)] = p => pc[p] = "renew_save"

\* One goroutine's API call is in flight while another goroutine of the
\* same client holds the mutex for its renewal.
C23_Witness ==
    \E p \in ApiWorkers, q \in ApiOthers :
        /\ pc[p] = "http"
        /\ stat[p].writes = 1
        /\ pc[q] = "renew_save"
        /\ mtx[ClientOf(p)] = q

\* C24: RenewToken gives the mutex back on every way out, also when the
\* store write fails, so no goroutine outside RenewToken holds it; and when
\* store commands eventually return, every goroutine waiting to renew gets
\* the mutex and its call (createRequest, or New) returns.
C24_LockReleased ==
    /\ [](\A p \in Procs : pc[p] # "renew_save" => mtx[ClientOf(p)] # p)
    /\ \A p \in Procs :
          (pc[p] = "renew_lock") ~> (pc[p] \in {"done", "ready", "new_failed"})

\* A renewal has failed at the store write while another goroutine of the
\* client is waiting for the mutex.
C24_Witness ==
    \E p, q \in Workers :
        /\ pc[p] = "done"
        /\ err[p] = "ErrStore"
        /\ stat[p].issued = 1
        /\ pc[q] = "renew_lock"
        /\ mtx[ClientOf(q)] = Unlocked

\* C25 (as stated): on the not-expired path the token attached to the
\* request is the token whose expiry the call checked, also when the store
\* key is overwritten between the check and the read.
C25_Original ==
    \A p \in Workers :
        (pc[p] = "done" /\ err[p] = "nil" /\ obs[p].kind = "valid")
        => req[p].token = obs[p].tok

\* C26: a request-building call that saw the token expired or absent runs
\* the renewal itself and attaches the token that renewal returned; a call
\* that saw it not expired issues nothing and writes nothing.  The store
\* is written only by a goroutine inside RenewToken (called from New or
\* from createRequest), never in the background.
C26_RenewsItself ==
    /\ [](\A p \in Workers :
            LET c == ClientOf(p)
            IN  (opts[c].Auth = AuthJWT /\ pc[p] = "done")
                => /\ obs[p].kind \in {"expired", "notfound"}
                        => /\ stat[p].issued = 1
                           /\ err[p] = "nil"
                                => /\ stat[p].writes = 1
                                   /\ req[p].token = jwtToken[p]
                                   /\ req[p].token =
                                        GenerateJWT("app", opts[c].KeyID, opts[c].Secret)
                           /\ err[p] # "nil" => stat[p].writes = 0 /\ req[p] = NoReq
                   /\ obs[p].kind = "valid"
                        => stat[p].issued = 0 /\ stat[p].writes = 0)
    /\ [][ (redis' # redis /\ redis' # EmptyStore)
              => \E p \in Procs : pc[p] = "renew_save" /\ Wrote(p) /\ redis'.by = p ]_vars

C26_Witness ==
    \E p, q \in Workers :
        /\ pc[p] = "done" /\ obs[p].kind = "expired" /\ err[p] = "nil"
        /\ stat[p].writes = 1
        /\ pc[q] = "done" /\ obs[q].kind = "valid" /\ err[q] = "nil"

\* The store has no token for a read made now.
Absent == redis.val = NoToken \/ now >= redis.expireAt

\* The stored token parses, carries the client's signature, and has an exp
\* that has passed: expiry is all that is wrong with it.
OnlyExpired(c) ==
    /\ ~Absent
    /\ redis.val.kind = "jwt"
    /\ redis.val.sig = opts[c].Secret
    /\ redis.val.exp # 0
    /\ now > redis.val.exp

\* C27: the expiry check of a request-building call reports (true, nil)
\* exactly when the store has no token or expiry is the stored token's only
\* validation failure; when the store read fails otherwise, the call
\* returns that error and has issued no token and written nothing.
C27_ExpiredExactlyWhen ==
    /\ [][ \A p \in Workers :
             (pc[p] = "idle" /\ pc'[p] # "idle" /\ opts[ClientOf(p)].Auth = AuthJWT)
             => IF err'[p] = "ErrStore"
                THEN /\ pc'[p] = "done"
                     /\ ~isExpired'[p]
                     /\ redis' = redis
                     /\ issuedTotal' = issuedTotal
                ELSE (isExpired'[p] /\ pc'[p] = "renew_lock")
                        <=> (Absent \/ OnlyExpired(ClientOf(p))) ]_vars
    /\ [](\A p \in Workers :
            obs[p].kind = "storeerr"
            => /\ pc[p] = "done"
               /\ err[p] = "ErrStore"
               /\ stat[p].issued = 0
               /\ stat[p].writes = 0
               /\ req[p] = NoReq)

C27_Witness ==
    \E p, q \in Workers :
        /\ obs[p].kind = "storeerr" /\ pc[p] = "done"
        /\ obs[q].kind = "notfound" /\ isExpired[q] /\ pc[q] = "done"
        /\ ticks = 1

\* C28: when New in JWT mode finds a token in the store, valid or not, it
\* issues nothing, writes nothing and leaves the stored value as it is; the
\* client is returned without the token having been verified.
C28_NewLeavesToken ==
    /\ [](\A c \in Clients :
            obs[MainOf(c)].kind = "found"
            => /\ pc[MainOf(c)] = "ready"
               /\ err[MainOf(c)] = "nil"
               /\ stat[MainOf(c)] = [issued |-> 0, writes |-> 0, reads |-> 1]
               /\ jwtToken[MainOf(c)] = NoToken)
    /\ [][ \A c \in Clients :
             (pc[MainOf(c)] = "new" /\ pc'[MainOf(c)] = "ready") => redis' = redis ]_vars

\* New of "A" has returned a client although the stored value is no token
\* at all, and the value is still there.
C28_Witness ==
    /\ obs[MainOf("A")].kind = "found"
    /\ obs[MainOf("A")].tok = Garbage
    /\ pc[MainOf("A")] = "ready"
    /\ redis.val = Garbage
    /\ obs[MainOf("B")].kind = "found"

\* C29: one request-building call in JWT mode issues at most one token,
\* writes the store at most once and reads it at most twice, and it
\* returns at the first step that fails: nothing is attempted again and
\* nothing is attempted after the failure.
C29_NoRetries ==
    \A p \in Workers :
        /\ stat[p].issued <= 1
        /\ stat[p].writes <= stat[p].issued
        /\ stat[p].reads <= 2
        /\ stat[p].reads + stat[p].issued <= 2
        /\ (pc[p] = "done" /\ err[p] # "nil")
              => /\ stat[p].writes = 0
                 /\ req[p] = NoReq
                 /\ obs[p].kind \in {"storeerr", "malformed"}
                       => stat[p].reads = 1 /\ stat[p].issued = 0
                 /\ obs[p].kind \in {"expired", "notfound"}
                       => stat[p].reads = 1 /\ stat[p].issued = 1
                 /\ obs[p].kind = "valid"
                       => stat[p].reads = 2 /\ stat[p].issued = 0

C29_Witness ==
    \E p, q \in Workers :
        /\ pc[p] = "done" /\ err[p] = "ErrStore"
        /\ obs[p].kind = "valid" /\ stat[p].reads = 2
        /\ pc[q] = "done" /\ err[q] = "ErrStore"
        /\ obs[q].kind = "expired" /\ stat[q].issued = 1

\* C30: the non-renewing client issues exactly one token, in New; every
\* request it sends afterwards carries that token as its Bearer
\* credential, and nothing ever replaces the token, issues another one, or
\* marks it expired.
C30_StaticToken ==
    /\ [](\A c \in Clients :
            /\ pc[MainOf(c)] = "ready"
                  => /\ issuedTotal[c] = 1
                     /\ obs[MainOf(c)].tok # NoToken
                     /\ jwtToken[MainOf(c)] = obs[MainOf(c)].tok
            /\ pc[MainOf(c)] # "ready" => issuedTotal[c] = 0
            /\ \A p \in StaticWorkers :
                  ClientOf(p) = c
                  => /\ stat[p] = NoStat
                     /\ ~isExpired[p]
                     /\ api[p].sent
                           => req[p] = [auth |-> "bearer", user |-> "", pass |-> "",
                                        token |-> obs[MainOf(c)].tok])
    /\ [][ \A c \in Clients :
             pc[MainOf(c)] = "ready"
             => /\ jwtToken'[MainOf(c)] = jwtToken[MainOf(c)]
                /\ issuedTotal'[c] = issuedTotal[c] ]_vars

\* One request of the client has been answered and another is in flight,
\* a token lifetime after the start.
C30_Witness ==
    \E p, q \in StaticWorkers :
        /\ p # q
        /\ pc[p] = "returned" /\ api[p].sent /\ api[p].status = StatusUnauthorized
        /\ pc[q] = "http"
        /\ req[q].token = jwtToken[MainOf("A")]
        /\ now = Epoch + JWTExpiration

====
